---- MODULE Spec2Model ----
(***************************************************************************)
(* Model of package userbus (business/domain/userbus/userbus.go): the core *)
(* business service for user accounts (Create, Update, Delete, QueryByID,  *)
(* QueryByEmail, Authenticate) over a storage port and an event-emission   *)
(* port, and the plugin chain NewBusiness builds around it.                *)
(*                                                                         *)
(* Every handler is one atomic action.  The inputs of the last call are    *)
(* kept in req, its results in ret, and the calls it made (plugin layers   *)
(* entered and left, ports invoked and what they answered) in trace.       *)
(***************************************************************************)
EXTENDS Integers, Sequences, FiniteSets, TLC

VARIABLES
    plugins,    \* the plugin list NewBusiness was given
    bus,        \* the Business NewBusiness returned: its layers, outermost first
    store,      \* the storage port's rows: user ID -> User
    snap,       \* the User value a caller holds from an earlier read
    now,        \* the clock time.Now() reads
    nextID,     \* number of identifiers uuid.New() has issued
    calls,      \* number of Business calls made so far
    req,        \* the last call: operation and arguments
    ret,        \* the last call: returned User and error
    trace,      \* the last call: layers and ports it went through, in order
    pre,        \* the rows as they were when the last call began
    lastPw,     \* user ID -> plaintext most recently set by Create or Update
    updated,    \* user IDs whose row an Update has written
    removed,    \* user IDs of the successful storer.Delete calls, in order
    notified    \* user IDs handed to delegate.Call, in order

vars == <<plugins, bus, store, snap, now, nextID, calls, req, ret, trace, pre,
          lastPw, updated, removed, notified>>

----------------------------------------------------------------------------
(* Bounds of the exploration. *)

\* Business calls explored from construction.
MaxCalls == 3
\* Business calls explored when every combination of UpdateUser fields is tried.
MaxUpdateCalls == 2
\* Longest plugin list given to NewBusiness.
MaxPlugins == 2
\* Business calls explored on a Business built with plugins.
MaxPluginCalls == 1

----------------------------------------------------------------------------
(* Errors.  Every error the handlers return wraps its cause with %w, so    *)
(* the kind a caller sees with errors.Is is the cause.                     *)

NoErr == "nil"
ErrNotFound == "user not found"
ErrUniqueEmail == "email is not unique"
ErrAuthenticationFailure == "authentication failed"
ErrPasswordTooLong == "bcrypt: password length exceeds 72 bytes"
ErrStorer == "storer: call failed"
ErrDelegate == "delegate: call failed"

----------------------------------------------------------------------------
(* Values. *)

Emails == {"ada@x.io", "bob@x.io"}

\* The zero User, User{}.
NoUser ==
    [ID |-> 0, Name |-> "", Email |-> "", PasswordHash |-> <<>>,
     Roles |-> <<>>, Department |-> "", Enabled |-> FALSE,
     DateCreated |-> 0, DateUpdated |-> 0]

\* bcrypt reads at most this many bytes of a key.
BcryptMaxLen == 72

Rep(b, n) == [i \in 1..n |-> b]

\* Plaintext passwords, as byte strings: a short one, one of exactly
\* BcryptMaxLen bytes, and each of them followed by the byte "x" (120).
ShortPw == <<115>>
BasePasswords == {ShortPw, Rep(115, BcryptMaxLen)}
Passwords == BasePasswords \cup {Append(p, 120) : p \in BasePasswords}

\* The key bcrypt derives from a password: the password and a terminating
\* zero byte, repeated cyclically, cut to BcryptMaxLen bytes.
BcryptKey(pw) ==
    LET k == Append(pw, 0)
    IN  [i \in 1..BcryptMaxLen |-> k[((i - 1) % Len(k)) + 1]]

\* BcryptKey over the passwords of the model.
KeyOf == [pw \in Passwords |-> BcryptKey(pw)]

\* bcrypt.GenerateFromPassword: refuses more than BcryptMaxLen bytes; the
\* hash carries the salt and the digest of (salt, key).  The digest is
\* one-way and taken to be collision free, so it is written as the key.
GenerateFromPassword(pw, salt) ==
    IF Len(pw) > BcryptMaxLen
    THEN [hash |-> <<>>, err |-> ErrPasswordTooLong]
    ELSE [hash |-> <<salt>> \o KeyOf[pw], err |-> NoErr]

\* bcrypt.CompareHashAndPassword: hashes the password with the salt of the
\* stored hash and compares; it accepts a password of any length.
CompareHashAndPassword(hash, pw) ==
    /\ Len(hash) > 0
    /\ hash = <<hash[1]>> \o KeyOf[pw]

----------------------------------------------------------------------------
(* Requests. *)

\* NewUser values.
NewUsers ==
    [Name : {"Ada"}, Email : Emails, Password : Passwords,
     Roles : {<<"USER">>}, Department : {"Eng"}]

\* An optional (pointer or slice) field of UpdateUser: <<>> is nil, <<v>> is
\* present with value v.
Opt(S) == {<<>>} \cup {<<v>> : v \in S}

\* UpdateUser values with every combination of fields present.
UpdateUsers ==
    [Name : Opt({"Grace"}), Email : Opt({"bob@x.io"}),
     Roles : Opt({<<"ADMIN">>}), Password : Opt({Append(ShortPw, 120)}),
     Department : Opt({"IT"}), Enabled : Opt({FALSE})]

NoFields ==
    [Name |-> <<>>, Email |-> <<>>, Roles |-> <<>>, Password |-> <<>>,
     Department |-> <<>>, Enabled |-> <<>>]

\* UpdateUser values with at most one field present.
SingleUpdates ==
    {NoFields}
      \cup {[NoFields EXCEPT !.Name = <<n>>] : n \in {"Grace"}}
      \cup {[NoFields EXCEPT !.Email = <<e>>] : e \in Emails}
      \cup {[NoFields EXCEPT !.Roles = <<r>>] : r \in {<<>>, <<"ADMIN">>}}
      \cup {[NoFields EXCEPT !.Password = <<p>>] : p \in Passwords}
      \cup {[NoFields EXCEPT !.Department = <<d>>] : d \in {"IT"}}
      \cup {[NoFields EXCEPT !.Enabled = <<b>>] : b \in BOOLEAN}

NoNewUser ==
    [Name |-> "", Email |-> "", Password |-> <<>>, Roles |-> <<>>,
     Department |-> ""]

\* The arguments of a call; the ones an operation does not take are zero.
Request(op) ==
    [op |-> op, usr |-> NoUser, nu |-> NoNewUser, uu |-> NoFields,
     id |-> 0, email |-> "", password |-> <<>>, at |-> 0]

----------------------------------------------------------------------------
(* The storage port (interface Storer).  Rows are keyed by user ID; email  *)
(* is unique among the rows, which is what Create and Update can fail on;  *)
(* Delete has no failure of its own, and fault is the port failing for     *)
(* another reason (connection lost, context cancelled).                    *)

EmailTaken(rows, usr) ==
    \E id \in DOMAIN rows : id # usr.ID /\ rows[id].Email = usr.Email

StorerCreate(rows, usr) ==
    IF EmailTaken(rows, usr) THEN [rows |-> rows, err |-> ErrUniqueEmail]
    ELSE [rows |-> [id \in DOMAIN rows \cup {usr.ID} |->
                        IF id = usr.ID THEN usr ELSE rows[id]],
          err |-> NoErr]

StorerUpdate(rows, usr) ==
    IF EmailTaken(rows, usr) THEN [rows |-> rows, err |-> ErrUniqueEmail]
    ELSE [rows |-> [id \in DOMAIN rows |->
                        IF id = usr.ID THEN usr ELSE rows[id]],
          err |-> NoErr]

StorerDelete(rows, usr, fault) ==
    IF fault THEN [rows |-> rows, err |-> ErrStorer]
    ELSE [rows |-> [id \in DOMAIN rows \ {usr.ID} |-> rows[id]],
          err |-> NoErr]

StorerQueryByID(rows, userID) ==
    IF userID \in DOMAIN rows
    THEN [usr |-> rows[userID], err |-> NoErr]
    ELSE [usr |-> NoUser, err |-> ErrNotFound]

StorerQueryByEmail(rows, email) ==
    IF \E id \in DOMAIN rows : rows[id].Email = email
    THEN [usr |-> rows[CHOOSE id \in DOMAIN rows : rows[id].Email = email],
          err |-> NoErr]
    ELSE [usr |-> NoUser, err |-> ErrNotFound]

\* The event-emission port: delegate.Call answers nil or an error.
DelegateCall(fault) == IF fault THEN ErrDelegate ELSE NoErr

----------------------------------------------------------------------------
(* Plugins.  A Business value is the sequence of its layers, outermost     *)
(* first, ending with the core; a plugin puts its own layer around the     *)
(* Business it is given, and that layer forwards every call.               *)

Nil == "nil"
PluginNames == {"A", "B"}
Core == <<"core">>

RECURSIVE SeqsUpTo(_, _)
SeqsUpTo(S, n) ==
    IF n = 0 THEN {<<>>}
    ELSE LET shorter == SeqsUpTo(S, n - 1)
         IN  shorter \cup {Append(q, x) : q \in shorter, x \in S}

PluginLists == SeqsUpTo(PluginNames \cup {Nil}, MaxPlugins)

\* p(b)
ApplyPlugin(p, b) == <<p>> \o b

\* The loop of NewBusiness: i runs from the last plugin down to the first.
RECURSIVE WrapFrom(_, _, _)
WrapFrom(ps, i, b) ==
    IF i < 1 THEN b
    ELSE WrapFrom(ps, i - 1, IF ps[i] # Nil THEN ApplyPlugin(ps[i], b) ELSE b)

\* NewBusiness with the loop running from the first plugin to the last.
RECURSIVE WrapUpTo(_, _, _)
WrapUpTo(ps, i, b) ==
    IF i > Len(ps) THEN b
    ELSE WrapUpTo(ps, i + 1, IF ps[i] # Nil THEN ApplyPlugin(ps[i], b) ELSE b)

NewBusinessFirstInnermost(ps) == WrapUpTo(ps, 1, Core)

NewBusiness(ps) == WrapFrom(ps, Len(ps), Core)

\* A call on Business b: each layer is entered, forwards, and is left; the
\* core's own steps are coreSteps.
RECURSIVE Invoke(_, _)
Invoke(b, coreSteps) ==
    IF Head(b) = "core" THEN coreSteps
    ELSE <<<<"enter", Head(b)>>>> \o Invoke(Tail(b), coreSteps)
             \o <<<<"exit", Head(b)>>>>

----------------------------------------------------------------------------
(* The core handlers, as functions of the rows and the arguments.  Each    *)
(* answers the returned User and error, the rows afterwards and the steps  *)
(* the handler took: its tracing span, then each port call with the error  *)
(* the port answered.                                                      *)

Span(op) == <<"core", op>>

\* NewUserValue with Enabled left at its zero value.
NewUserValueDisabled(nu, id, hash, t) ==
    [ID |-> id, Name |-> nu.Name, Email |-> nu.Email, PasswordHash |-> hash,
     Roles |-> nu.Roles, Department |-> nu.Department, Enabled |-> FALSE,
     DateCreated |-> t, DateUpdated |-> t]

\* The User that Create builds from the request.
NewUserValue(nu, id, hash, t) ==
    [ID |-> id, Name |-> nu.Name, Email |-> nu.Email, PasswordHash |-> hash,
     Roles |-> nu.Roles, Department |-> nu.Department, Enabled |-> TRUE,
     DateCreated |-> t, DateUpdated |-> t]

CreateCore(rows, nu, id, salt, t) ==
    LET h == GenerateFromPassword(nu.Password, salt)
        usr == NewUserValue(nu, id, h.hash, t)
        s == StorerCreate(rows, usr)
    IN  IF h.err # NoErr
        THEN [usr |-> NoUser, err |-> h.err, rows |-> rows,
              steps |-> <<Span("Create")>>]
        ELSE [usr |-> IF s.err # NoErr THEN NoUser ELSE usr, err |-> s.err,
              rows |-> s.rows,
              steps |-> <<Span("Create"), <<"storer.Create", s.err>>>>]

\* MergeUpdate writing Department whether or not the request has it.
MergeUpdateClearsDepartment(usr, uu, hash, t) ==
    [ID |-> usr.ID,
     Name |-> IF uu.Name # <<>> THEN uu.Name[1] ELSE usr.Name,
     Email |-> IF uu.Email # <<>> THEN uu.Email[1] ELSE usr.Email,
     PasswordHash |-> IF uu.Password # <<>> THEN hash ELSE usr.PasswordHash,
     Roles |-> IF uu.Roles # <<>> THEN uu.Roles[1] ELSE usr.Roles,
     Department |-> IF uu.Department # <<>> THEN uu.Department[1] ELSE "",
     Enabled |-> IF uu.Enabled # <<>> THEN uu.Enabled[1] ELSE usr.Enabled,
     DateCreated |-> usr.DateCreated,
     DateUpdated |-> t]

\* MergeUpdate refreshing DateUpdated only when a field is present.
MergeUpdateKeepsDate(usr, uu, hash, t) ==
    [ID |-> usr.ID,
     Name |-> IF uu.Name # <<>> THEN uu.Name[1] ELSE usr.Name,
     Email |-> IF uu.Email # <<>> THEN uu.Email[1] ELSE usr.Email,
     PasswordHash |-> IF uu.Password # <<>> THEN hash ELSE usr.PasswordHash,
     Roles |-> IF uu.Roles # <<>> THEN uu.Roles[1] ELSE usr.Roles,
     Department |-> IF uu.Department # <<>> THEN uu.Department[1]
                    ELSE usr.Department,
     Enabled |-> IF uu.Enabled # <<>> THEN uu.Enabled[1] ELSE usr.Enabled,
     DateCreated |-> usr.DateCreated,
     DateUpdated |-> IF uu = NoFields THEN usr.DateUpdated ELSE t]

\* The merge of Update: every present field of uu overwrites usr's, hash is
\* the hash of the new password when there is one, and DateUpdated is t.
MergeUpdate(usr, uu, hash, t) ==
    [ID |-> usr.ID,
     Name |-> IF uu.Name # <<>> THEN uu.Name[1] ELSE usr.Name,
     Email |-> IF uu.Email # <<>> THEN uu.Email[1] ELSE usr.Email,
     PasswordHash |-> IF uu.Password # <<>> THEN hash ELSE usr.PasswordHash,
     Roles |-> IF uu.Roles # <<>> THEN uu.Roles[1] ELSE usr.Roles,
     Department |-> IF uu.Department # <<>> THEN uu.Department[1]
                    ELSE usr.Department,
     Enabled |-> IF uu.Enabled # <<>> THEN uu.Enabled[1] ELSE usr.Enabled,
     DateCreated |-> usr.DateCreated,
     DateUpdated |-> t]

UpdateCore(rows, usr, uu, salt, t) ==
    LET h == IF uu.Password # <<>>
             THEN GenerateFromPassword(uu.Password[1], salt)
             ELSE [hash |-> <<>>, err |-> NoErr]
        merged == MergeUpdate(usr, uu, h.hash, t)
        s == StorerUpdate(rows, merged)
    IN  IF h.err # NoErr
        THEN [usr |-> NoUser, err |-> h.err, rows |-> rows,
              steps |-> <<Span("Update")>>]
        ELSE [usr |-> IF s.err # NoErr THEN NoUser ELSE merged, err |-> s.err,
              rows |-> s.rows,
              steps |-> <<Span("Update"), <<"storer.Update", s.err>>>>]

\* DeleteCore putting the row back when the delegate fails.
DeleteCoreRestores(rows, usr, fault, dfault) ==
    LET s == StorerDelete(rows, usr, fault)
        d == DelegateCall(dfault)
    IN  IF s.err # NoErr
        THEN [usr |-> NoUser, err |-> s.err, rows |-> s.rows,
              steps |-> <<Span("Delete"), <<"storer.Delete", s.err>>>>]
        ELSE [usr |-> NoUser, err |-> d,
              rows |-> IF d # NoErr THEN rows ELSE s.rows,
              steps |-> <<Span("Delete"), <<"storer.Delete", s.err>>,
                          <<"delegate.Call", d>>>>]

\* DeleteCore calling the delegate before it looks at storer.Delete's error.
DeleteCoreAlwaysNotifies(rows, usr, fault, dfault) ==
    LET s == StorerDelete(rows, usr, fault)
        d == DelegateCall(dfault)
    IN  [usr |-> NoUser, err |-> IF s.err # NoErr THEN s.err ELSE d,
         rows |-> s.rows,
         steps |-> <<Span("Delete"), <<"storer.Delete", s.err>>,
                     <<"delegate.Call", d>>>>]

DeleteCore(rows, usr, fault, dfault) ==
    LET s == StorerDelete(rows, usr, fault)
        d == DelegateCall(dfault)
    IN  IF s.err # NoErr
        THEN [usr |-> NoUser, err |-> s.err, rows |-> s.rows,
              steps |-> <<Span("Delete"), <<"storer.Delete", s.err>>>>]
        ELSE [usr |-> NoUser, err |-> d, rows |-> s.rows,
              steps |-> <<Span("Delete"), <<"storer.Delete", s.err>>,
                          <<"delegate.Call", d>>>>]

QueryByIDCore(rows, userID) ==
    LET q == StorerQueryByID(rows, userID)
    IN  [usr |-> IF q.err # NoErr THEN NoUser ELSE q.usr, err |-> q.err,
         rows |-> rows,
         steps |-> <<Span("QueryByID"), <<"storer.QueryByID", q.err>>>>]

QueryByEmailCore(rows, email) ==
    LET q == StorerQueryByEmail(rows, email)
    IN  [usr |-> IF q.err # NoErr THEN NoUser ELSE q.usr, err |-> q.err,
         rows |-> rows,
         steps |-> <<Span("QueryByEmail"), <<"storer.QueryByEmail", q.err>>>>]

\* AuthenticateCore refusing a disabled user.
AuthenticateCoreChecksEnabled(rows, email, password) ==
    LET q == QueryByEmailCore(rows, email)
        steps == <<Span("Authenticate")>> \o q.steps
    IN  IF q.err # NoErr
        THEN [usr |-> NoUser, err |-> q.err, rows |-> rows, steps |-> steps]
        ELSE IF \/ ~CompareHashAndPassword(q.usr.PasswordHash, password)
                \/ ~q.usr.Enabled
        THEN [usr |-> NoUser, err |-> ErrAuthenticationFailure, rows |-> rows,
              steps |-> steps]
        ELSE [usr |-> q.usr, err |-> NoErr, rows |-> rows, steps |-> steps]

\* Authenticate calls the core's own QueryByEmail, then compares.
AuthenticateCore(rows, email, password) ==
    LET q == QueryByEmailCore(rows, email)
        steps == <<Span("Authenticate")>> \o q.steps
    IN  IF q.err # NoErr
        THEN [usr |-> NoUser, err |-> q.err, rows |-> rows, steps |-> steps]
        ELSE IF ~CompareHashAndPassword(q.usr.PasswordHash, password)
        THEN [usr |-> NoUser, err |-> ErrAuthenticationFailure, rows |-> rows,
              steps |-> steps]
        ELSE [usr |-> q.usr, err |-> NoErr, rows |-> rows, steps |-> steps]

----------------------------------------------------------------------------
(* The state after construction. *)

NoRows == [id \in {} |-> NoUser]
NoPasswords == [id \in {} |-> <<>>]

Constructed(ps) ==
    /\ plugins = ps
    /\ bus = NewBusiness(ps)
    /\ store = NoRows
    /\ snap = NoUser
    /\ now = 1
    /\ nextID = 0
    /\ calls = 0
    /\ req = Request("")
    /\ ret = [usr |-> NoUser, err |-> NoErr]
    /\ trace = <<>>
    /\ pre = NoRows
    /\ lastPw = NoPasswords
    /\ updated = {}
    /\ removed = <<>>
    /\ notified = <<>>

\* NewBusiness(log, delegate, storer): no plugins.
Init == Constructed(<<>>)

\* NewBusiness(log, delegate, storer, plugins...), for every plugin list.
InitPlugins == \E ps \in PluginLists : Constructed(ps)

----------------------------------------------------------------------------
(* Actions: one Business call each, made on bus. *)

HasStep(steps, port, err) ==
    \E i \in 1..Len(steps) : steps[i] = <<port, err>>

Called(steps, port) ==
    \E i \in 1..Len(steps) : steps[i][1] = port

\* The salt bcrypt draws for a new hash: 16 random bytes, which no earlier
\* hash has.
FreshSalt == calls + 1

\* What every call does to the state: r is the request, res the core's
\* answer, held the snapshot the caller holds afterwards.
Call(limit, r, res, held) ==
    /\ calls < limit
    /\ calls' = calls + 1
    /\ req' = r
    /\ ret' = [usr |-> res.usr, err |-> res.err]
    /\ trace' = Invoke(bus, res.steps)
    /\ pre' = store
    /\ store' = res.rows
    /\ snap' = held
    /\ UNCHANGED <<plugins, bus, now>>

\* uuid.New() answers an identifier never issued before.
CreateWith(limit, requests) ==
    \E nu \in requests :
        LET res == CreateCore(store, nu, nextID + 1, FreshSalt, now)
            r == [Request("Create") EXCEPT !.nu = nu, !.at = now]
        IN  /\ Call(limit, r, res, IF res.err = NoErr THEN res.usr ELSE snap)
            /\ nextID' = IF Called(res.steps, "storer.Create")
                         THEN nextID + 1 ELSE nextID
            /\ lastPw' = IF res.err = NoErr
                         THEN [id \in DOMAIN lastPw \cup {res.usr.ID} |->
                                  IF id = res.usr.ID THEN nu.Password
                                  ELSE lastPw[id]]
                         ELSE lastPw
            /\ UNCHANGED <<updated, removed, notified>>

\* Update is handed the snapshot the caller holds; what it returns goes to
\* its caller, and the held snapshot stays until the next read.
UpdateWith(limit, requests) ==
    /\ snap # NoUser
    /\ \E uu \in requests :
        LET res == UpdateCore(store, snap, uu, FreshSalt, now)
            r == [Request("Update") EXCEPT !.usr = snap, !.uu = uu, !.at = now]
        IN  /\ Call(limit, r, res, snap)
            /\ lastPw' = IF /\ res.err = NoErr
                            /\ uu.Password # <<>>
                            /\ snap.ID \in DOMAIN store
                         THEN [lastPw EXCEPT ![snap.ID] = uu.Password[1]]
                         ELSE lastPw
            /\ updated' = IF res.err = NoErr /\ snap.ID \in DOMAIN store
                          THEN updated \cup {snap.ID} ELSE updated
            /\ UNCHANGED <<nextID, removed, notified>>

DeleteWith(limit) ==
    /\ snap # NoUser
    /\ \E fault \in BOOLEAN, dfault \in BOOLEAN :
        LET res == DeleteCore(store, snap, fault, dfault)
            r == [Request("Delete") EXCEPT !.usr = snap]
        IN  /\ Call(limit, r, res, snap)
            /\ removed' = IF HasStep(res.steps, "storer.Delete", NoErr)
                          THEN Append(removed, snap.ID) ELSE removed
            /\ notified' = IF Called(res.steps, "delegate.Call")
                           THEN Append(notified, snap.ID) ELSE notified
            /\ UNCHANGED <<nextID, lastPw, updated>>

QueryByIDWith(limit) ==
    \E userID \in 1..(nextID + 1) :
        LET res == QueryByIDCore(store, userID)
            r == [Request("QueryByID") EXCEPT !.id = userID]
        IN  /\ Call(limit, r, res, IF res.err = NoErr THEN res.usr ELSE snap)
            /\ UNCHANGED <<nextID, lastPw, updated, removed, notified>>

QueryByEmailWith(limit) ==
    \E email \in Emails :
        LET res == QueryByEmailCore(store, email)
            r == [Request("QueryByEmail") EXCEPT !.email = email]
        IN  /\ Call(limit, r, res, IF res.err = NoErr THEN res.usr ELSE snap)
            /\ UNCHANGED <<nextID, lastPw, updated, removed, notified>>

AuthenticateWith(limit) ==
    \E email \in Emails, password \in Passwords :
        LET res == AuthenticateCore(store, email, password)
            r == [Request("Authenticate") EXCEPT !.email = email,
                                                 !.password = password]
        IN  /\ Call(limit, r, res, IF res.err = NoErr THEN res.usr ELSE snap)
            /\ UNCHANGED <<nextID, lastPw, updated, removed, notified>>

\* The clock advances between calls; at most one advance between two calls
\* is told apart by the dates the handlers write.
TickWith(limit) ==
    /\ calls < limit
    /\ now <= calls
    /\ now' = now + 1
    /\ UNCHANGED <<plugins, bus, store, snap, nextID, calls, req, ret, trace,
                   pre, lastPw, updated, removed, notified>>

Tick == TickWith(MaxCalls)
Create == CreateWith(MaxCalls, NewUsers)
Update == UpdateWith(MaxCalls, SingleUpdates)
Delete == DeleteWith(MaxCalls)
QueryByID == QueryByIDWith(MaxCalls)
QueryByEmail == QueryByEmailWith(MaxCalls)
Authenticate == AuthenticateWith(MaxCalls)

Next ==
    \/ Tick
    \/ Create
    \/ Update
    \/ Delete
    \/ QueryByID
    \/ QueryByEmail
    \/ Authenticate

Spec == Init /\ [][Next]_vars

\* Calls of Create and Update with every combination of UpdateUser fields.
TickAnyFields == TickWith(MaxUpdateCalls)
CreateAnyFields == CreateWith(MaxUpdateCalls, NewUsers)
UpdateAnyFields == UpdateWith(MaxUpdateCalls, UpdateUsers)

NextUpdate ==
    \/ TickAnyFields
    \/ CreateAnyFields
    \/ UpdateAnyFields

SpecUpdate == Init /\ [][NextUpdate]_vars

\* The first calls on a Business built with each plugin list.
CreateWrapped == CreateWith(MaxPluginCalls, NewUsers)
QueryByIDWrapped == QueryByIDWith(MaxPluginCalls)
QueryByEmailWrapped == QueryByEmailWith(MaxPluginCalls)
AuthenticateWrapped == AuthenticateWith(MaxPluginCalls)

NextPlugins ==
    \/ CreateWrapped
    \/ QueryByIDWrapped
    \/ QueryByEmailWrapped
    \/ AuthenticateWrapped

SpecPlugins == InitPlugins /\ [][NextPlugins]_vars

----------------------------------------------------------------------------
(* Properties. *)

Live(ps) == SelectSeq(ps, LAMBDA p : p # Nil)

Ok == ret.err = NoErr

\* The rows of rows without the row of userID.
Without(rows, userID) == [id \in DOMAIN rows \ {userID} |-> rows[id]]

\* The stored row with the e-mail of the last call, when there is one.
RowByEmail ==
    CHOOSE u \in {pre[id] : id \in DOMAIN pre} \cup {NoUser} :
        \/ u # NoUser /\ u.Email = req.email
        \/ u = NoUser /\ \A id \in DOMAIN pre : pre[id].Email # req.email

\* hash is a bcrypt hash of plaintext pw.
HashOf(hash, pw) ==
    /\ Len(hash) > 0
    /\ GenerateFromPassword(pw, hash[1]) = [hash |-> hash, err |-> NoErr]

\* C1: a Create call on the Business NewBusiness returns enters the non-nil
\* plugins in their listed order, then runs the core, then leaves them in
\* the reverse order; with no non-nil plugin the call is the core's alone.
PluginOrder ==
    req.op = "Create" =>
        LET live == Live(plugins)
            n == Len(live)
            m == Len(trace)
        IN  /\ m > 2 * n
            /\ \A i \in 1..n :
                   /\ trace[i] = <<"enter", live[i]>>
                   /\ trace[m + 1 - i] = <<"exit", live[i]>>
            /\ trace[n + 1] = Span("Create")
            /\ \A j \in (n + 1)..(m - n) : trace[j][1] \notin {"enter", "exit"}

PluginOrderWitness ==
    /\ plugins = <<"A", "B">>
    /\ req.op = "Create"
    /\ trace = <<<<"enter", "A">>, <<"enter", "B">>, Span("Create"),
                 <<"storer.Create", NoErr>>, <<"exit", "B">>, <<"exit", "A">>>>

\* C2: Authenticate with an e-mail no stored user has, and Authenticate
\* with a stored user's e-mail and a password that does not match, fail
\* with the same error kind, the authentication failure.
AuthenticateSameErrorKind ==
    (/\ req.op = "Authenticate"
     /\ \/ RowByEmail = NoUser
        \/ ~CompareHashAndPassword(RowByEmail.PasswordHash, req.password))
        => ret.err = ErrAuthenticationFailure

\* C3: for a user as Create stored it from plaintext p, the stored hash is
\* not p, Authenticate with p returns the stored row, and Authenticate with
\* any other password fails with the authentication failure and the zero
\* User.
AuthenticateOnlyWithPassword ==
    /\ \A id \in DOMAIN store \ updated : store[id].PasswordHash # lastPw[id]
    /\ (/\ req.op = "Authenticate"
        /\ RowByEmail # NoUser
        /\ RowByEmail.ID \notin updated)
        => IF req.password = lastPw[RowByEmail.ID]
           THEN ret = [usr |-> RowByEmail, err |-> NoErr]
           ELSE ret = [usr |-> NoUser, err |-> ErrAuthenticationFailure]

\* C4: a successful Update returns the snapshot with each present field of
\* the request written over it (the password as its hash) and each absent
\* one as it was, ID and DateCreated as they were, and stores that record
\* in the row of the user, leaving the other rows alone.
FieldApplied(opt, before, after) ==
    IF opt = <<>> THEN after = before ELSE after = opt[1]

UpdateFrame ==
    (req.op = "Update" /\ Ok) =>
        LET u == req.usr
            r == ret.usr
            uu == req.uu
        IN  /\ r.ID = u.ID
            /\ r.DateCreated = u.DateCreated
            /\ FieldApplied(uu.Name, u.Name, r.Name)
            /\ FieldApplied(uu.Email, u.Email, r.Email)
            /\ FieldApplied(uu.Roles, u.Roles, r.Roles)
            /\ FieldApplied(uu.Department, u.Department, r.Department)
            /\ FieldApplied(uu.Enabled, u.Enabled, r.Enabled)
            /\ IF uu.Password = <<>> THEN r.PasswordHash = u.PasswordHash
               ELSE HashOf(r.PasswordHash, uu.Password[1])
            /\ DOMAIN store = DOMAIN pre
            /\ \A id \in DOMAIN store :
                   store[id] = IF id = u.ID THEN r ELSE pre[id]

UpdateFrameWitness ==
    /\ req.op = "Update"
    /\ Ok
    /\ req.usr.ID \in DOMAIN pre
    /\ req.uu.Name # <<>>
    /\ req.uu.Password # <<>>
    /\ req.uu.Email = <<>>
    /\ req.uu.Department = <<>>
    /\ store[req.usr.ID].Name # pre[req.usr.ID].Name
    /\ store[req.usr.ID].Department = pre[req.usr.ID].Department

\* C5: when storer.Delete succeeds, the row is gone when Delete returns,
\* whatever delegate.Call answers, and Delete returns delegate.Call's
\* answer: an error when the delegate failed, with nothing restored.
DeleteKeptOnNotifyFailure ==
    (req.op = "Delete" /\ HasStep(trace, "storer.Delete", NoErr)) =>
        /\ store = Without(pre, req.usr.ID)
        /\ HasStep(trace, "delegate.Call", ret.err)
        /\ HasStep(trace, "delegate.Call", ErrDelegate) => ret.err = ErrDelegate

DeleteKeptOnNotifyFailureWitness ==
    /\ req.op = "Delete"
    /\ HasStep(trace, "storer.Delete", NoErr)
    /\ ret.err = ErrDelegate
    /\ req.usr.ID \in DOMAIN pre
    /\ req.usr.ID \notin DOMAIN store

\* C6: every stored user's PasswordHash is non-empty and is a hash of the
\* plaintext most recently set for that user by Create or by an Update with
\* Password present.
PasswordHashIsLatest ==
    \A id \in DOMAIN store : HashOf(store[id].PasswordHash, lastPw[id])

CreateContract ==
    req.op = "Create" =>
        IF Ok
        THEN LET r == ret.usr
             IN  /\ r.ID \notin DOMAIN pre
                 /\ \A i \in 1..Len(removed) : removed[i] # r.ID
                 /\ DOMAIN store = DOMAIN pre \cup {r.ID}
                 /\ \A id \in DOMAIN store :
                        store[id] = IF id = r.ID THEN r ELSE pre[id]
                 /\ r.Enabled = TRUE
                 /\ r.DateCreated = req.at
                 /\ r.DateUpdated = req.at
                 /\ r.Name = req.nu.Name
                 /\ r.Email = req.nu.Email
                 /\ r.Roles = req.nu.Roles
                 /\ r.Department = req.nu.Department
        ELSE /\ ret.usr = NoUser
             /\ store = pre

CreateContractWitness ==
    /\ req.op = "Create"
    /\ Ok
    /\ DOMAIN pre # {}
    /\ Cardinality(DOMAIN store) = Cardinality(DOMAIN pre) + 1

\* C9: QueryByID and QueryByEmail return the stored row, so Enabled as an
\* Update wrote it, and Authenticate with a stored user's e-mail and a
\* password the stored hash was made from returns the stored row whether the
\* user is enabled or not.
AuthenticateIgnoresEnabled ==
    /\ (req.op = "Update" /\ Ok /\ req.uu.Enabled # <<>>
            /\ req.usr.ID \in DOMAIN pre)
        => store[req.usr.ID].Enabled = req.uu.Enabled[1]
    /\ (req.op = "QueryByID" /\ req.id \in DOMAIN pre)
        => ret = [usr |-> pre[req.id], err |-> NoErr]
    /\ (req.op = "QueryByEmail" /\ RowByEmail # NoUser)
        => ret = [usr |-> RowByEmail, err |-> NoErr]
    /\ (/\ req.op = "Authenticate"
        /\ RowByEmail # NoUser
        /\ HashOf(RowByEmail.PasswordHash, req.password))
        => ret = [usr |-> RowByEmail, err |-> NoErr]

AuthenticateIgnoresEnabledWitness ==
    /\ req.op = "Authenticate"
    /\ Ok
    /\ ret.usr.Enabled = FALSE
    /\ ret.usr.ID \in updated

\* C10: delegate.Call is made exactly for the successful storer.Delete
\* calls, once each and after them: a Delete whose storer.Delete failed
\* returns that error and does not reach the delegate.
DeleteEventAfterStorage ==
    /\ notified = removed
    /\ req.op = "Delete" =>
           IF HasStep(trace, "storer.Delete", NoErr)
           THEN trace = <<Span("Delete"), <<"storer.Delete", NoErr>>,
                          <<"delegate.Call", ret.err>>>>
           ELSE /\ trace = <<Span("Delete"), <<"storer.Delete", ErrStorer>>>>
                /\ ret.err = ErrStorer

DeleteEventAfterStorageWitness ==
    /\ req.op = "Delete"
    /\ ret.err = ErrStorer
    /\ req.usr.ID \in DOMAIN store
    /\ ~Called(trace, "delegate.Call")

====
